---- MODULE Spec2Model ----
(***************************************************************************)
(* Model of kafka-to-bwhc: the consumer loop of main.rs, handle_message,   *)
(* the serde-derived decoders of Request and MTBFileWithConsent, the       *)
(* BwhcClient calls and the response written back to Kafka.                *)
(***************************************************************************)
EXTENDS FiniteSets, Integers, Sequences, TLC

VARIABLES
    pc,         \* where main is: "init", "recv", "downstream", "publish", "panicked"
    env,        \* the process environment read by main and by BwhcClient
    dst_topic,  \* main's dst_topic, "" until main has computed it
    received,   \* number of results consumer.recv() has returned so far
    msg,        \* the message handled last (or being handled)
    request,    \* handle_message's local `request` (ok = FALSE: none)
    calls,      \* the BwhcClient functions invoked for msg, in order
    exchange,   \* what the backend did with the request of msg (NoExchange: nothing yet)
    result,     \* what the BwhcClient call of msg returned (kind "none": nothing yet)
    published,  \* FutureRecords handed to producer.send for msg, in order
    delivered,  \* outcome of producer.send for msg: "none", "pending", "ok", "failed"
    logged      \* the error!/warn! lines written while handling msg, in order

vars == <<pc, env, dst_topic, received, msg, request, calls, exchange, result,
          published, delivered, logged>>

(***************************************************************************)
(* JSON.  A value is a record [t, s, n, items]: t is the kind, s the text  *)
(* of a string, n the number, items the elements of an array (k = "") or   *)
(* the members of an object in document order, duplicates included.        *)
(***************************************************************************)
JStr(s) == [t |-> "str", s |-> s, n |-> 0, items |-> <<>>]
JNum(n) == [t |-> "num", s |-> "", n |-> n, items |-> <<>>]
JNull == [t |-> "null", s |-> "", n |-> 0, items |-> <<>>]
M(k, v) == [k |-> k, v |-> v]
JObj(members) == [t |-> "obj", s |-> "", n |-> 0, items |-> members]
JArr(vs) == [t |-> "arr", s |-> "", n |-> 0, items |-> [i \in DOMAIN vs |-> M("", vs[i])]]

(* A text (a &str): form "json" is a well-formed JSON document holding     *)
(* `json`, written compactly (ws = FALSE) or with insignificant            *)
(* whitespace (ws = TRUE); "empty" is "", "blank" is whitespace only,      *)
(* "garbage" is any other text that is not JSON.                           *)
Text(form, ws, json) == [form |-> form, ws |-> ws, json |-> json]
Compact(json) == Text("json", FALSE, json)
Spaced(json) == Text("json", TRUE, json)
EmptyText == Text("empty", FALSE, JNull)
BlankText == Text("blank", TRUE, JNull)
GarbageText == Text("garbage", FALSE, JNull)

(* The member names of the model in the byte order serde_json's map keeps  *)
(* them in.                                                                *)
KeyOrder ==
    <<"active", "consent", "id", "issues", "message", "patient", "rejected",
      "requestId", "request_id", "severity", "status", "status_body", "status_code">>

HasKey(members, k) == \E i \in DOMAIN members : members[i].k = k

LastValue(members, k) ==
    LET last == CHOOSE i \in DOMAIN members :
                    /\ members[i].k = k
                    /\ \A j \in DOMAIN members : j > i => members[j].k # k
    IN members[last].v

(* serde_json::Value built from a document: an object keeps one entry per  *)
(* key (the last one read), ordered by key.                                *)
RECURSIVE Value(_)
Value(v) ==
    IF v.t = "obj"
    THEN LET ks == SelectSeq(KeyOrder, LAMBDA k : HasKey(v.items, k))
         IN JObj([i \in DOMAIN ks |-> M(ks[i], Value(LastValue(v.items, ks[i])))])
    ELSE IF v.t = "arr"
    THEN [v EXCEPT !.items = [i \in DOMAIN v.items |-> M("", Value(v.items[i].v))]]
    ELSE v

(* serde_json::from_str::<Value>(s) *)
Value_from_str(s) ==
    IF s.form = "json" THEN [ok |-> TRUE, value |-> Value(s.json)]
    ELSE [ok |-> FALSE, value |-> JNull]

(* Value::to_string(): the compact rendering of the value *)
Value_to_string(v) == Compact(v)

(***************************************************************************)
(* #[derive(Deserialize)] for a struct with named fields.  `fields` gives, *)
(* per field in declaration order, the set of names it is read from.  A    *)
(* JSON object is read by visit_map (an unknown key is skipped, a second   *)
(* value for a field is an error, a field without value is an error), a    *)
(* JSON array by visit_seq (fields by position, too few or too many        *)
(* elements are an error); any other value is an error.  The result holds  *)
(* the raw value found for each field.                                     *)
(***************************************************************************)
FieldOf(fields, k) ==
    IF \E f \in DOMAIN fields : k \in fields[f]
    THEN CHOOSE f \in DOMAIN fields : k \in fields[f]
    ELSE 0

(* mutant: a second value for a field is skipped, the first one read wins *)
RECURSIVE VisitMap_first_wins(_, _, _, _)
VisitMap_first_wins(members, i, fields, acc) ==
    IF i > Len(members)
    THEN [ok |-> \A f \in DOMAIN fields : acc[f].set,
          vals |-> [f \in DOMAIN fields |-> acc[f].v]]
    ELSE LET f == FieldOf(fields, members[i].k)
         IN IF f = 0 \/ acc[f].set THEN VisitMap_first_wins(members, i + 1, fields, acc)
            ELSE VisitMap_first_wins(members, i + 1, fields,
                                     [acc EXCEPT ![f] = [set |-> TRUE, v |-> members[i].v]])

RECURSIVE VisitMap(_, _, _, _)
VisitMap(members, i, fields, acc) ==
    IF i > Len(members)
    THEN [ok |-> \A f \in DOMAIN fields : acc[f].set,
          vals |-> [f \in DOMAIN fields |-> acc[f].v]]
    ELSE LET f == FieldOf(fields, members[i].k)
         IN IF f = 0 THEN VisitMap(members, i + 1, fields, acc)
            ELSE IF acc[f].set
            THEN [ok |-> FALSE, vals |-> [g \in DOMAIN fields |-> acc[g].v]]
            ELSE VisitMap(members, i + 1, fields,
                          [acc EXCEPT ![f] = [set |-> TRUE, v |-> members[i].v]])

DeserializeStruct(v, fields) ==
    LET none == [f \in DOMAIN fields |-> [set |-> FALSE, v |-> JNull]]
    IN IF v.t = "obj" THEN VisitMap(v.items, 1, fields, none)
       ELSE IF v.t = "arr"
       THEN [ok |-> Len(v.items) = Len(fields),
             vals |-> [f \in DOMAIN fields |->
                          IF f <= Len(v.items) THEN v.items[f].v ELSE JNull]]
       ELSE [ok |-> FALSE, vals |-> [f \in DOMAIN fields |-> JNull]]


(***************************************************************************)
(* resources/mtbfile.rs                                                    *)
(***************************************************************************)
(* String: only a JSON string decodes. *)
String_deserialize(v) == [ok |-> v.t = "str", s |-> v.s]

(* enum Status: the renamed unit variants, written as the string "active" / *)
(* "rejected" or as the one-member object {"active": null}.                 *)
Variant(name) ==
    IF name = "active" THEN "Active" ELSE IF name = "rejected" THEN "Rejected" ELSE "none"

(* mutant: an unknown status literal decodes as Rejected *)
Status_deserialize_other_is_rejected(v) ==
    IF v.t = "str" THEN [ok |-> TRUE, status |-> IF v.s = "active" THEN "Active" ELSE "Rejected"]
    ELSE [ok |-> FALSE, status |-> "none"]

Status_deserialize(v) ==
    IF v.t = "str"
    THEN [ok |-> v.s \in {"active", "rejected"}, status |-> Variant(v.s)]
    ELSE IF v.t = "obj" /\ Len(v.items) = 1
    THEN [ok |-> v.items[1].k \in {"active", "rejected"} /\ v.items[1].v.t = "null",
          status |-> Variant(v.items[1].k)]
    ELSE [ok |-> FALSE, status |-> "none"]

(* struct Consent { status: Status, patient: String } *)
Consent_deserialize(v) ==
    LET d == DeserializeStruct(v, <<{"status"}, {"patient"}>>)
        st == Status_deserialize(d.vals[1])
        pt == String_deserialize(d.vals[2])
    IN [ok |-> d.ok /\ st.ok /\ pt.ok, status |-> st.status, patient |-> pt.s]

(* MTBFileWithConsent::from_str: struct MTBFileWithConsent { consent: Consent } *)
MTBFileWithConsent_from_str(s) ==
    IF s.form # "json"
    THEN [ok |-> FALSE, consent |-> [ok |-> FALSE, status |-> "none", patient |-> ""]]
    ELSE LET d == DeserializeStruct(s.json, <<{"consent"}>>)
             c == Consent_deserialize(d.vals[1])
         IN [ok |-> d.ok /\ c.ok, consent |-> c]

MTBFileWithConsent_has_consent(mtbfile) == mtbfile.consent.status = "Active"

MTBFileWithConsent_patient_id(mtbfile) == mtbfile.consent.patient

(***************************************************************************)
(* resources/request.rs                                                    *)
(***************************************************************************)
(* Request::from_str: struct Request { request_id (alias requestId): String, *)
(* content: Value }                                                          *)
(* mutant: a missing request_id defaults to the empty string *)
Request_from_str_default_id(s) ==
    IF s.form # "json"
    THEN [ok |-> FALSE, request_id |-> "", content |-> JNull]
    ELSE LET d == DeserializeStruct(s.json, <<{"content"}>>)
         IN [ok |-> d.ok, request_id |-> "", content |-> Value(d.vals[1])]

Request_from_str(s) ==
    IF s.form # "json"
    THEN [ok |-> FALSE, request_id |-> "", content |-> JNull]
    ELSE LET d == DeserializeStruct(s.json, <<{"request_id", "requestId"}, {"content"}>>)
             id == String_deserialize(d.vals[1])
         IN [ok |-> d.ok /\ id.ok, request_id |-> id.s, content |-> Value(d.vals[2])]

(* mutant: the content is rendered with to_string_pretty *)
content_string_pretty(req) == Spaced(req.content)

content_string(req) == Value_to_string(req.content)

(* mutant: the id of the consent's patient is returned as the request id *)
request_id_of_patient(req) ==
    MTBFileWithConsent_from_str(Value_to_string(req.content)).consent.patient

request_id(req) == req.request_id

(* mutant: only the Request is decoded, not the consent in its content *)
can_parse_request_only(s) == Request_from_str(s).ok

can_parse(s) ==
    LET req == Request_from_str(s)
    IN IF req.ok THEN MTBFileWithConsent_from_str(content_string(req)).ok ELSE FALSE

(* mutant: consent is taken as given whatever the status *)
has_consent_always(req) == TRUE

has_consent(req) ==
    LET mtbfile == MTBFileWithConsent_from_str(Value_to_string(req.content))
    IN IF mtbfile.ok THEN MTBFileWithConsent_has_consent(mtbfile) ELSE FALSE

(* mutant: the request id is returned as the patient id *)
patient_id_of_request(req) == req.request_id

patient_id(req) ==
    LET mtbfile == MTBFileWithConsent_from_str(Value_to_string(req.content))
    IN IF mtbfile.ok THEN MTBFileWithConsent_patient_id(mtbfile) ELSE ""

(***************************************************************************)
(* bwhc_client.rs                                                          *)
(***************************************************************************)
Unset == [set |-> FALSE, v |-> ""]
EnvVar(v) == [set |-> TRUE, v |-> v]

NoRequest == [method |-> "", url |-> "", body |-> EmptyText]

(* Up to .send(): the lookup of APP_REST_URI and the HTTP request built.    *)
(* ok = FALSE: the function returned MissingConfig and sent nothing.       *)
send_mtb_file(e, content) ==
    IF ~e.APP_REST_URI.set
    THEN [fn |-> "send_mtb_file", arg |-> content, ok |-> FALSE, err |-> "MissingConfig",
          http |-> NoRequest]
    ELSE [fn |-> "send_mtb_file", arg |-> content, ok |-> TRUE, err |-> "",
          http |-> [method |-> "POST", url |-> e.APP_REST_URI.v \o "/MTBFile",
                    body |-> content]]

send_delete(e, patient) ==
    IF ~e.APP_REST_URI.set
    THEN [fn |-> "send_delete", arg |-> patient, ok |-> FALSE, err |-> "MissingConfig",
          http |-> NoRequest]
    ELSE [fn |-> "send_delete", arg |-> patient, ok |-> TRUE, err |-> "",
          http |-> [method |-> "DELETE", url |-> e.APP_REST_URI.v \o "/MTBFile/" \o patient,
                    body |-> EmptyText]]

(* From .send().await on: an exchange that did not complete is HttpError, a *)
(* completed one gives the status as u16 and the body text, "" if the body  *)
(* could not be read.                                                       *)
NoResult == [kind |-> "none", err |-> "", status_code |-> 0, status_body |-> EmptyText]
Err(e) == [kind |-> "err", err |-> e, status_code |-> 0, status_body |-> EmptyText]
Ok(code, body) == [kind |-> "ok", err |-> "", status_code |-> code, status_body |-> body]

(* mutant: a 4xx/5xx status is turned into an error (error_for_status) *)
HttpResponse_error_for_status(x) ==
    IF ~x.completed \/ x.status >= 400 THEN Err("HttpError")
    ELSE Ok(x.status, IF x.readable THEN x.body ELSE EmptyText)

HttpResponse(x) ==
    IF ~x.completed THEN Err("HttpError")
    ELSE Ok(x.status, IF x.readable THEN x.body ELSE EmptyText)

(***************************************************************************)
(* main.rs                                                                 *)
(***************************************************************************)
NoConnectionCode == 900

SuccessfulConnection(r) == [variant |-> "SuccessfulConnection", response |-> r]
NoConnection == [variant |-> "NoConnection", response |-> NoResult]

(* mutant: a body that is no JSON is reported as null *)
to_payload_null_body(p, id) ==
    IF p.variant = "SuccessfulConnection"
    THEN LET parsed == Value_from_str(p.response.status_body)
         IN Value_to_string(Value(JObj(<<
                M("request_id", JStr(id)),
                M("status_code", JNum(p.response.status_code)),
                M("status_body", IF parsed.ok THEN parsed.value ELSE JNull)>>)))
    ELSE Value_to_string(Value(JObj(<<
                M("request_id", JStr(id)),
                M("status_code", JNum(NoConnectionCode)),
                M("status_body", JObj(<<
                    M("issues", JArr(<<JObj(<<
                        M("severity", JStr("error")),
                        M("message", JStr("No HTTP connection"))>>)>>))>>))>>)))

(* mutant: a lost connection is reported with the HTTP status 503 *)
to_payload_503(p, id) ==
    Value_to_string(Value(JObj(<<
        M("request_id", JStr(id)),
        M("status_code", JNum(IF p.variant = "SuccessfulConnection"
                              THEN p.response.status_code ELSE 503)),
        M("status_body", JObj(<<>>))>>)))

(* KafkaResponsePayload::to_payload *)
to_payload(p, id) ==
    IF p.variant = "SuccessfulConnection"
    THEN LET body == p.response.status_body
             parsed == Value_from_str(body)
         IN Value_to_string(Value(JObj(<<
                M("request_id", JStr(id)),
                M("status_code", JNum(p.response.status_code)),
                M("status_body",
                  IF body.form \in {"empty", "blank"} THEN JObj(<<>>)
                  ELSE IF parsed.ok THEN parsed.value ELSE JObj(<<>>))>>)))
    ELSE Value_to_string(Value(JObj(<<
                M("request_id", JStr(id)),
                M("status_code", JNum(NoConnectionCode)),
                M("status_body", JObj(<<
                    M("issues", JArr(<<JObj(<<
                        M("severity", JStr("error")),
                        M("message", JStr("No HTTP connection"))>>)>>))>>))>>)))

(* mutant: the record is keyed by the request id *)
send_kafka_response_keyed_by_id(topic, id, key, payload) ==
    [topic |-> topic, key |-> id, payload |-> to_payload(payload, id)]

(* send_kafka_response: the FutureRecord handed to producer.send *)
send_kafka_response(topic, id, key, payload) ==
    [topic |-> topic, key |-> key, payload |-> to_payload(payload, id)]

(* handle_message, the arms of `match BwhcClient::send_...(..).await` *)
ResponseFor(r) ==
    IF r.kind = "ok" THEN SuccessfulConnection(r) ELSE NoConnection

(* handle_message, `if request.has_consent() {send_mtb_file} else {send_delete}` *)
Dispatch(e, req) ==
    IF has_consent(req) THEN send_mtb_file(e, content_string(req))
    ELSE send_delete(e, patient_id(req))


(***************************************************************************)
(* The inbound messages the model draws from.                              *)
(***************************************************************************)
MaxMessages == 2

IdParts ==
    { <<>>,
      <<M("request_id", JStr("r1"))>>,
      <<M("requestId", JStr("r2"))>>,
      <<M("request_id", JStr(""))>>,
      <<M("requestId", JNum(7))>>,
      <<M("request_id", JStr("r1")), M("requestId", JStr("r2"))>>,
      <<M("requestId", JStr("r2")), M("request_id", JStr("r1"))>> }

StatusParts ==
    { <<>>,
      <<M("status", JStr("active"))>>,
      <<M("status", JStr("rejected"))>>,
      <<M("status", JStr("revoked"))>>,
      <<M("status", JNull)>> }

PatientParts ==
    { <<>>,
      <<M("patient", JStr("p1"))>>,
      <<M("patient", JStr(""))>>,
      <<M("patient", JNum(1))>> }

Consents ==
    { JObj(<<M("id", JStr("c1"))>> \o p \o st) : p \in PatientParts, st \in StatusParts }
    \cup { JObj(<<M("status", JStr("active")), M("patient", JStr("p2"))>>),
           JObj(<<M("status", JObj(<<M("rejected", JNull)>>)), M("patient", JStr("p2"))>>),
           JObj(<<M("status", JStr("active")), M("status", JStr("rejected")),
                  M("patient", JStr("p2"))>>),
           JArr(<<JStr("rejected"), JStr("p2")>>),
           JArr(<<JStr("active")>>),
           JStr("active"),
           JNull }

Contents ==
    { JObj(<<M("consent", c)>>) : c \in Consents }
    \cup { JObj(<<>>),
           JObj(<<M("status", JStr("rejected")), M("patient", JStr("p1"))>>),
           JObj(<<M("consent", JNull),
                  M("consent", JObj(<<M("patient", JStr("p2")),
                                      M("status", JStr("rejected"))>>))>>),
           JArr(<<JObj(<<M("status", JStr("active")), M("patient", JStr("p1"))>>)>>),
           JStr("consent"),
           JNull }

ContentParts ==
    { <<>> } \cup { <<M("content", c)>> : c \in Contents }
    \cup { <<M("content", JNull),
             M("content", JObj(<<M("consent", JObj(<<M("patient", JStr("p1")),
                                                     M("status", JStr("active"))>>))>>))>> }

(* The content of the tests of request.rs, with either status *)
TestContent(status) ==
    JObj(<<M("consent", JObj(<<M("id", JStr("c1")), M("patient", JStr("p1")),
                               M("status", JStr(status))>>))>>)

TestContents == { TestContent("active"), TestContent("rejected") }

Documents ==
    { JObj(<<M("request_id", JStr("r1"))>> \o c) : c \in ContentParts }
    \cup { JObj(i \o <<M("content", c)>>) : i \in IdParts, c \in TestContents }
    \cup { JObj(<<M("content", TestContent("rejected")), M("requestId", JStr("r2"))>>) }
    \cup { JArr(<<JStr("r1"), c>>) : c \in TestContents }
    \cup { JArr(<<>>), JArr(<<JStr("r1")>>),
           JArr(<<JStr("r1"), TestContent("active"), JNull>>), JStr("r1"), JNull }

SpacedDocuments ==
    { JObj(<<M("requestId", JStr("r2")), M("content", c)>>) : c \in TestContents }

Bodies ==
    { Compact(d) : d \in Documents } \cup { Spaced(d) : d \in SpacedDocuments }
    \cup { EmptyText, GarbageText }

(* What Message::payload_view::<str>() and key_view::<str>() give: None,   *)
(* Some(Err(_)) for bytes that are not UTF-8, or Some(Ok(text)).           *)
View(v, s) == [view |-> v, s |-> s]

Keys == { View("ok", "k1"), View("ok", "k2"), View("none", ""), View("invalid", "") }

Messages ==
    [payload : { View("ok", b) : b \in Bodies }, key : { View("ok", "k1") }]
    \cup [payload : { View("ok", Spaced(d)) : d \in SpacedDocuments } \cup
                    { View("ok", GarbageText), View("none", EmptyText),
                      View("invalid", EmptyText) },
          key : Keys]

NoMessage == [payload |-> View("none", EmptyText), key |-> View("none", "")]

(* What the bwHC backend can do with a request: no completed exchange      *)
(* (timeout, refused connection), or a response with any HTTP status and   *)
(* a body that may fail to be read.                                        *)
StatusCodes == {200, 201, 404, 422, 500, 900}

ResponseBodies ==
    { EmptyText, BlankText, GarbageText, Compact(JObj(<<>>)), Compact(JNull),
      Spaced(JObj(<<M("issues", JArr(<<JObj(<<M("severity", JStr("warning")),
                                              M("message", JStr("m"))>>)>>))>>)) }

Exchange(completed, status, readable, body) ==
    [completed |-> completed, status |-> status, readable |-> readable, body |-> body]

NoExchange == [completed |-> FALSE, status |-> -1, readable |-> FALSE, body |-> EmptyText]

Exchanges ==
    { Exchange(FALSE, 0, FALSE, EmptyText) }
    \cup { Exchange(TRUE, c, TRUE, Compact(JObj(<<>>))) : c \in StatusCodes }
    \cup { Exchange(TRUE, c, TRUE, b) : c \in {200, 900}, b \in ResponseBodies }
    \cup { Exchange(TRUE, c, FALSE, EmptyText) : c \in {200, 500} }

Environments ==
    [APP_REST_URI : {Unset, EnvVar("http://bwhc")},
     APP_KAFKA_TOPIC : {Unset, EnvVar("mtb")},
     APP_KAFKA_RESPONSE_TOPIC : {Unset, EnvVar("answers")}]

NoPayloadRequest == [ok |-> FALSE, request_id |-> "", content |-> JNull]

(***************************************************************************)
(* main and handle_message                                                 *)
(***************************************************************************)
Init ==
    /\ pc = "init"
    /\ env \in Environments
    /\ dst_topic = ""
    /\ received = 0
    /\ msg = NoMessage
    /\ request = NoPayloadRequest
    /\ calls = <<>>
    /\ exchange = NoExchange
    /\ result = NoResult
    /\ published = <<>>
    /\ delivered = "none"
    /\ logged = <<>>

(* main up to "Application started" *)
Start ==
    /\ pc = "init"
    /\ IF ~env.APP_REST_URI.set
       THEN pc' = "panicked" /\ dst_topic' = dst_topic
       ELSE LET src_topic == IF env.APP_KAFKA_TOPIC.set THEN env.APP_KAFKA_TOPIC.v
                             ELSE "etl-processor"
            IN /\ pc' = "recv"
               /\ dst_topic' = IF env.APP_KAFKA_RESPONSE_TOPIC.set
                               THEN env.APP_KAFKA_RESPONSE_TOPIC.v
                               ELSE src_topic \o "_response"
    /\ UNCHANGED <<env, received, msg, request, calls, exchange, result, published,
                   delivered, logged>>

(* The record handle_message hands to the producer once the client call    *)
(* has returned r.                                                         *)
Respond(req, key, r) ==
    send_kafka_response(dst_topic, request_id(req), key, ResponseFor(r))

(* mutant: the response is handed to the producer when the client call     *)
(* starts, not when it has returned                                        *)
handle_message_eager(key, payload) ==
    IF can_parse(payload)
    THEN LET req == Request_from_str(payload)
             call == Dispatch(env, req)
         IN [pc |-> IF call.ok THEN "downstream" ELSE "publish", request |-> req,
             calls |-> <<call>>, result |-> IF call.ok THEN NoResult ELSE Err(call.err),
             published |-> <<Respond(req, key, Err(call.err))>>, logged |-> <<>>]
    ELSE [pc |-> "recv", request |-> NoPayloadRequest, calls |-> <<>>,
          result |-> NoResult, published |-> <<>>,
          logged |-> <<"Cannot parse message content!">>]

(* mutant: the request is unwrapped, a body that does not parse panics *)
handle_message_unwrap(key, payload) ==
    LET req == Request_from_str(payload)
    IN IF can_parse(payload)
       THEN LET call == Dispatch(env, req)
            IN IF call.ok
               THEN [pc |-> "downstream", request |-> req, calls |-> <<call>>,
                     result |-> NoResult, published |-> <<>>, logged |-> <<>>]
               ELSE [pc |-> "publish", request |-> req, calls |-> <<call>>,
                     result |-> Err(call.err),
                     published |-> <<Respond(req, key, Err(call.err))>>,
                     logged |-> <<>>]
       ELSE [pc |-> "panicked", request |-> NoPayloadRequest, calls |-> <<>>,
             result |-> NoResult, published |-> <<>>, logged |-> <<>>]

(* mutant: a request whose id is that of the request handled before it is  *)
(* taken for a redelivery and not dispatched again                         *)
handle_message_once(key, payload) ==
    IF can_parse(payload)
    THEN LET req == Request_from_str(payload)
         IN IF req.ok /\ ~(request.ok /\ request_id(request) = request_id(req))
            THEN LET call == Dispatch(env, req)
                 IN IF call.ok
                    THEN [pc |-> "downstream", request |-> req, calls |-> <<call>>,
                          result |-> NoResult, published |-> <<>>, logged |-> <<>>]
                    ELSE [pc |-> "publish", request |-> req, calls |-> <<call>>,
                          result |-> Err(call.err),
                          published |-> <<Respond(req, key, Err(call.err))>>,
                          logged |-> <<>>]
            ELSE [pc |-> "recv", request |-> request, calls |-> <<>>,
                  result |-> NoResult, published |-> <<>>, logged |-> <<>>]
    ELSE [pc |-> "recv", request |-> NoPayloadRequest, calls |-> <<>>,
          result |-> NoResult, published |-> <<>>,
          logged |-> <<"Cannot parse message content!">>]

(* handle_message from its start to its first .await that suspends *)
handle_message(key, payload) ==
    IF can_parse(payload)
    THEN LET req == Request_from_str(payload)
         IN IF req.ok
            THEN LET call == Dispatch(env, req)
                 IN IF call.ok
                    THEN [pc |-> "downstream", request |-> req, calls |-> <<call>>,
                          result |-> NoResult, published |-> <<>>, logged |-> <<>>]
                    ELSE [pc |-> "publish", request |-> req, calls |-> <<call>>,
                          result |-> Err(call.err),
                          published |-> <<Respond(req, key, Err(call.err))>>,
                          logged |-> <<>>]
            ELSE [pc |-> "recv", request |-> NoPayloadRequest, calls |-> <<>>,
                  result |-> NoResult, published |-> <<>>, logged |-> <<>>]
    ELSE [pc |-> "recv", request |-> NoPayloadRequest, calls |-> <<>>,
          result |-> NoResult, published |-> <<>>,
          logged |-> <<"Cannot parse message content!">>]

Unhandled(line) ==
    [pc |-> "recv", request |-> NoPayloadRequest, calls |-> <<>>, result |-> NoResult,
     published |-> <<>>, logged |-> <<line>>]

(* mutant: the handler is spawned as a task, the loop receives the next    *)
(* message while the call or the publish of this one is still awaited     *)
Receive_spawned(m) ==
    /\ pc \in {"recv", "downstream", "publish"}
    /\ received < MaxMessages
    /\ received' = received + 1
    /\ msg' = m
    /\ \E h \in { IF m.payload.view = "ok"
                   THEN IF m.key.view = "ok"
                        THEN handle_message(m.key.s, m.payload.s)
                        ELSE Unhandled("Unable to use key!")
                   ELSE Unhandled("Unable to use payload!") } :
          /\ pc' = h.pc
          /\ request' = h.request
          /\ calls' = h.calls
          /\ exchange' = NoExchange
          /\ result' = h.result
          /\ published' = h.published
          /\ delivered' = IF h.published = <<>> THEN "none" ELSE "pending"
          /\ logged' = h.logged
    /\ UNCHANGED <<env, dst_topic>>

(* mutant: a message without a usable key is handled with an empty key *)
Receive_keyless(m) ==
    /\ pc = "recv"
    /\ received < MaxMessages
    /\ received' = received + 1
    /\ msg' = m
    /\ \E h \in { IF m.payload.view = "ok"
                   THEN handle_message(IF m.key.view = "ok" THEN m.key.s ELSE "",
                                       m.payload.s)
                   ELSE Unhandled("Unable to use payload!") } :
          /\ pc' = h.pc
          /\ request' = h.request
          /\ calls' = h.calls
          /\ exchange' = NoExchange
          /\ result' = h.result
          /\ published' = h.published
          /\ delivered' = IF h.published = <<>> THEN "none" ELSE "pending"
          /\ logged' = h.logged
    /\ UNCHANGED <<env, dst_topic>>

(* One turn of main's loop: consumer.recv() returned message m *)
Receive(m) ==
    /\ pc = "recv"
    /\ received < MaxMessages
    /\ received' = received + 1
    /\ msg' = m
    /\ \E h \in { IF m.payload.view = "ok"
                   THEN IF m.key.view = "ok"
                        THEN handle_message(m.key.s, m.payload.s)
                        ELSE Unhandled("Unable to use key!")
                   ELSE Unhandled("Unable to use payload!") } :
          /\ pc' = h.pc
          /\ request' = h.request
          /\ calls' = h.calls
          /\ exchange' = NoExchange
          /\ result' = h.result
          /\ published' = h.published
          /\ delivered' = IF h.published = <<>> THEN "none" ELSE "pending"
          /\ logged' = h.logged
    /\ UNCHANGED <<env, dst_topic>>

(* One turn of main's loop: consumer.recv() returned an error *)
ReceiveError ==
    /\ pc = "recv"
    /\ received < MaxMessages
    /\ received' = received + 1
    /\ msg' = NoMessage
    /\ request' = NoPayloadRequest
    /\ calls' = <<>>
    /\ exchange' = NoExchange
    /\ result' = NoResult
    /\ published' = <<>>
    /\ delivered' = "none"
    /\ logged' = <<"Unable to consume message">>
    /\ UNCHANGED <<pc, env, dst_topic>>

(* The BwhcClient call of handle_message returns; handle_message builds    *)
(* the response and hands it to the producer.                              *)
DownstreamReturns(x) ==
    /\ pc = "downstream"
    /\ exchange' = x
    /\ result' = HttpResponse(x)
    /\ published' = Append(published, Respond(request, msg.key.s, HttpResponse(x)))
    /\ delivered' = "pending"
    /\ pc' = "publish"
    /\ UNCHANGED <<env, dst_topic, received, msg, request, calls, logged>>

(* mutant: a record that was not delivered is handed to the producer again *)
PublishReturns_retry(ok) ==
    /\ pc = "publish"
    /\ IF ok \/ Len(published) > 1
       THEN /\ delivered' = IF ok THEN "ok" ELSE "failed"
            /\ published' = published
            /\ pc' = "recv"
       ELSE /\ delivered' = "pending"
            /\ published' = Append(published, published[1])
            /\ pc' = "publish"
    /\ logged' = IF ok THEN logged ELSE Append(logged, "Response not sent")
    /\ UNCHANGED <<env, dst_topic, received, msg, request, calls, exchange, result>>

(* producer.send(..).await returns: delivered, or not (only a warning) *)
PublishReturns(ok) ==
    /\ pc = "publish"
    /\ delivered' = IF ok THEN "ok" ELSE "failed"
    /\ logged' = IF ok THEN logged ELSE Append(logged, "Response not sent")
    /\ pc' = "recv"
    /\ UNCHANGED <<env, dst_topic, received, msg, request, calls, exchange, result,
                   published>>

Next ==
    \/ Start
    \/ \E m \in Messages : Receive(m)
    \/ ReceiveError
    \/ \E x \in Exchanges : DownstreamReturns(x)
    \/ \E ok \in BOOLEAN : PublishReturns(ok)

Spec == Init /\ [][Next]_vars


(***************************************************************************)
(* The inbound document as it is on the wire, read without the decoders:   *)
(* the values a document supplies for a field, by name in an object or by  *)
(* position in an array.                                                   *)
(***************************************************************************)
Supplied(v, names, pos) ==
    IF v.t = "obj" THEN SelectSeq(v.items, LAMBDA m : m.k \in names)
    ELSE IF v.t = "arr" /\ pos <= Len(v.items) THEN <<v.items[pos]>>
    ELSE <<>>

Last(seq) == seq[Len(seq)]

WireIds(s) == Supplied(s.json, {"request_id", "requestId"}, 1)
WireContents(s) == Supplied(s.json, {"content"}, 2)
WireConsents(s) == Supplied(Last(WireContents(s)).v, {"consent"}, 1)
WireStatuses(s) == Supplied(Last(WireConsents(s)).v, {"status"}, 1)
WirePatients(s) == Supplied(Last(WireConsents(s)).v, {"patient"}, 2)

(* The body is a structured document with one correlation id, a string,    *)
(* and one content.                                                        *)
IsRequest(s) ==
    /\ s.form = "json"
    /\ s.json.t \in {"obj", "arr"}
    /\ s.json.t = "arr" => Len(s.json.items) = 2
    /\ Len(WireIds(s)) = 1
    /\ WireIds(s)[1].v.t = "str"
    /\ Len(WireContents(s)) = 1

HasConsentObject(s) ==
    /\ WireContents(s) # <<>>
    /\ Last(WireContents(s)).v.t \in {"obj", "arr"}
    /\ Last(WireContents(s)).v.t = "arr" => Len(Last(WireContents(s)).v.items) = 1
    /\ WireConsents(s) # <<>>
    /\ Last(WireConsents(s)).v.t \in {"obj", "arr"}
    /\ Last(WireConsents(s)).v.t = "arr" => Len(Last(WireConsents(s)).v.items) = 2

(* The status literal of the consent: "active", "rejected", another        *)
(* string, or "" when the document gives none.                             *)
WireStatus(s) ==
    IF ~HasConsentObject(s) \/ WireStatuses(s) = <<>> THEN ""
    ELSE LET v == Last(WireStatuses(s)).v
         IN IF v.t = "str" THEN v.s
            ELSE IF v.t = "obj" /\ Len(v.items) = 1 /\ v.items[1].v.t = "null"
            THEN v.items[1].k
            ELSE ""

HasPatient(s) ==
    /\ HasConsentObject(s)
    /\ WirePatients(s) # <<>>
    /\ Last(WirePatients(s)).v.t = "str"

HasValidConsent(s) ==
    /\ HasConsentObject(s)
    /\ WireStatus(s) \in {"active", "rejected"}
    /\ HasPatient(s)

WellFormed(s) == IsRequest(s) /\ HasValidConsent(s)

(* handle_message ran for msg: the consumer loop could use payload and key *)
Usable == received > 0 /\ msg.payload.view = "ok" /\ msg.key.view = "ok"

Submits == SelectSeq(calls, LAMBDA c : c.fn = "send_mtb_file")
Deletes == SelectSeq(calls, LAMBDA c : c.fn = "send_delete")

(* C1: for a message that parses and carries a valid consent record,       *)
(* handle_message starts exactly one downstream operation, whatever the    *)
(* call returns afterwards: one submit and no delete when the status is    *)
(* active, one delete and no submit when it is rejected.                   *)
C1_OneOperationByStatus ==
    (Usable /\ WellFormed(msg.payload.s)) =>
        /\ Len(calls) = 1
        /\ WireStatus(msg.payload.s) = "active" => Len(Submits) = 1 /\ Deletes = <<>>
        /\ WireStatus(msg.payload.s) = "rejected" => Len(Deletes) = 1 /\ Submits = <<>>

C1_Witness ==
    /\ Usable /\ WellFormed(msg.payload.s)
    /\ WireStatus(msg.payload.s) = "rejected"
    /\ pc = "recv" /\ result.kind = "err"
    /\ Len(Deletes) = 1

(* C2: once a message has been handled, exactly one response was handed to *)
(* the producer if the message parsed (whatever the downstream call        *)
(* returned), and none if it did not parse.                                *)
C2_OneResponsePerParsedRequest ==
    (pc = "recv" /\ Usable) =>
        Len(published) = IF WellFormed(msg.payload.s) THEN 1 ELSE 0

C2_Witness ==
    /\ pc = "recv" /\ Usable /\ WellFormed(msg.payload.s)
    /\ result.kind = "ok" /\ result.status_code = 500
    /\ Len(published) = 1

(* C3: a message whose content has no consent object, no status, no        *)
(* patient or a status other than active/rejected is rejected as           *)
(* unparseable: no delete, no submit, no response.                         *)
C3_NoConsentIsParseFailure ==
    (Usable /\ msg.payload.s.form = "json" /\ ~HasValidConsent(msg.payload.s)) =>
        /\ ~can_parse(msg.payload.s)
        /\ calls = <<>>
        /\ published = <<>>
        /\ logged = <<"Cannot parse message content!">>

C3_Witness ==
    /\ Usable /\ IsRequest(msg.payload.s)
    /\ HasConsentObject(msg.payload.s)
    /\ WireStatus(msg.payload.s) = "revoked"
    /\ HasPatient(msg.payload.s)
    /\ pc = "recv" /\ calls = <<>>

(* C4: a document without a correlation id under either name, without      *)
(* content, or that is no structured document cannot be parsed: nothing    *)
(* is called downstream and no response is published.                      *)
C4_MissingFieldIsParseFailure ==
    (Usable /\ ( \/ msg.payload.s.form # "json"
                 \/ msg.payload.s.json.t \notin {"obj", "arr"}
                 \/ WireIds(msg.payload.s) = <<>>
                 \/ WireContents(msg.payload.s) = <<>> )) =>
        /\ ~can_parse(msg.payload.s)
        /\ pc = "recv"
        /\ calls = <<>>
        /\ published = <<>>
        /\ logged = <<"Cannot parse message content!">>

C4_Witness ==
    /\ Usable /\ msg.payload.s.form = "json" /\ msg.payload.s.json.t = "obj"
    /\ WireIds(msg.payload.s) = <<>>
    /\ WireContents(msg.payload.s) # <<>> /\ HasValidConsent(msg.payload.s)
    /\ pc = "recv" /\ published = <<>>


(* The member `k` of the published response payload *)
Answer(k) == LastValue(published[1].payload.json.items, k)

NoConnectionBody ==
    JObj(<<M("issues", JArr(<<JObj(<<M("message", JStr("No HTTP connection")),
                                     M("severity", JStr("error"))>>)>>))>>)

(* The response of the sentinel form for request id `id` *)
NoConnectionAnswer(id) ==
    Compact(JObj(<<M("request_id", JStr(id)), M("status_body", NoConnectionBody),
                   M("status_code", JNum(NoConnectionCode))>>))

(* C5: when the downstream exchange did not complete, handling goes on to  *)
(* publish one response, and that response is exactly the request's id,    *)
(* status_code 900 and the fixed "No HTTP connection" body, for either     *)
(* downstream operation.                                                   *)
C5_UnreachableGives900 ==
    (Usable /\ result.kind = "err") =>
        /\ pc \in {"publish", "recv"}
        /\ Len(published) = 1
        /\ published[1].payload = NoConnectionAnswer(WireIds(msg.payload.s)[1].v.s)

C5_Witness ==
    /\ Usable /\ result.kind = "err" /\ ~exchange.completed
    /\ Len(Submits) = 1
    /\ WireIds(msg.payload.s)[1].v.s = "r2"
    /\ pc = "recv" /\ delivered = "ok"

(* C6: a published response has status_code 900 only if the downstream    *)
(* exchange did not complete.                                              *)
C6_SentinelOnlyWhenUnreachable ==
    (Usable /\ published # <<>>) =>
        (Answer("status_code") = JNum(NoConnectionCode) => ~exchange.completed)

(* C7: when the downstream exchange completed, whatever its status, the    *)
(* call returned Ok and the published response carries that status.        *)
C7_CompletedExchangeIsSuccess ==
    (Usable /\ exchange.completed) =>
        /\ result.kind = "ok"
        /\ Len(published) = 1
        /\ Answer("status_code") = JNum(exchange.status)

C7_Witness ==
    /\ Usable /\ exchange.completed /\ exchange.status = 404
    /\ Len(Deletes) = 1
    /\ pc = "recv" /\ Answer("status_code") = JNum(404)

(* C8: the request_id of a published response is the correlation id the    *)
(* inbound document gave, under request_id or under requestId.             *)
C8_RequestIdRoundTrip ==
    (Usable /\ published # <<>>) =>
        Answer("request_id") = JStr(WireIds(msg.payload.s)[1].v.s)

C8_Witness ==
    /\ Usable /\ published # <<>>
    /\ WireIds(msg.payload.s)[1].k = "requestId"
    /\ Answer("request_id") = JStr("r2")
    /\ result.kind = "ok"

(* The response topic main derives from the environment *)
ResponseTopic(e) ==
    IF e.APP_KAFKA_RESPONSE_TOPIC.set THEN e.APP_KAFKA_RESPONSE_TOPIC.v
    ELSE IF e.APP_KAFKA_TOPIC.set THEN e.APP_KAFKA_TOPIC.v \o "_response"
    ELSE "etl-processor_response"

(* C9: every published response has the key of the inbound message and     *)
(* goes to the response topic fixed at startup.                            *)
C9_KeyAndTopicUnchanged ==
    /\ pc \notin {"init", "panicked"} => dst_topic = ResponseTopic(env)
    /\ \A i \in DOMAIN published :
          /\ published[i].key = msg.key.s
          /\ published[i].topic = ResponseTopic(env)

C9_Witness ==
    /\ Len(published) = 1
    /\ msg.key = View("ok", "k2")
    /\ published[1].key = "k2"
    /\ published[1].topic = "mtb_response"

(* C10: can_parse is true exactly when the body parses into a Request and  *)
(* the Request's content holds a valid consent record; Request::from_str   *)
(* alone succeeds exactly when the body is a Request.                      *)
C10_CanParseIffRequestWithConsent ==
    Usable =>
        /\ Request_from_str(msg.payload.s).ok <=> IsRequest(msg.payload.s)
        /\ can_parse(msg.payload.s) <=>
              (IsRequest(msg.payload.s) /\ HasValidConsent(msg.payload.s))
        /\ (logged = <<>> \/ logged = <<"Response not sent">>)
              <=> can_parse(msg.payload.s)

C10_Witness ==
    /\ Usable /\ pc = "recv"
    /\ Request_from_str(msg.payload.s).ok
    /\ ~can_parse(msg.payload.s)
    /\ logged = <<"Cannot parse message content!">>

(* The document is an object that gives the correlation id under both      *)
(* names, request_id and requestId.                                        *)
BothSpellings(s) ==
    /\ s.form = "json"
    /\ s.json.t = "obj"
    /\ HasKey(s.json.items, "request_id")
    /\ HasKey(s.json.items, "requestId")

(* C11, as claimed: a document with both spellings of the correlation id   *)
(* (and one content with a valid consent) parses, and the request id is    *)
(* the value of the first of the two fields.                               *)
C11_FirstSpellingWins ==
    (Usable /\ BothSpellings(msg.payload.s) /\ Len(WireContents(msg.payload.s)) = 1
            /\ HasValidConsent(msg.payload.s)) =>
        /\ Request_from_str(msg.payload.s).ok
        /\ Request_from_str(msg.payload.s).request_id = WireIds(msg.payload.s)[1].v.s

(* C11, amended: a document with both spellings of the correlation id does *)
(* not parse (the second one is a duplicate field): can_parse is false, no *)
(* downstream operation is invoked and no response is published.           *)
C11_BothSpellingsRejected ==
    (Usable /\ BothSpellings(msg.payload.s)) =>
        /\ ~Request_from_str(msg.payload.s).ok
        /\ ~can_parse(msg.payload.s)
        /\ pc = "recv"
        /\ calls = <<>>
        /\ published = <<>>
        /\ logged = <<"Cannot parse message content!">>

C11_Witness ==
    /\ Usable /\ BothSpellings(msg.payload.s)
    /\ WireIds(msg.payload.s)[1].k = "requestId"
    /\ Len(WireContents(msg.payload.s)) = 1 /\ HasValidConsent(msg.payload.s)
    /\ pc = "recv" /\ published = <<>>

(* C12: a Request that parsed has a non-empty request_id, so no downstream *)
(* operation and no response is made for an empty correlation id.          *)
C12_RequestIdNonEmpty ==
    Usable =>
        /\ request.ok => request.request_id # ""
        /\ (calls # <<>> \/ published # <<>>) => WireIds(msg.payload.s)[1].v.s # ""
        /\ published # <<>> => Answer("request_id") # JStr("")

(* The status_body expected for a completed exchange: the body as a JSON   *)
(* value if it could be read and is JSON, else the empty object.           *)
ExpectedBody(x) ==
    IF x.readable /\ x.body.form = "json" THEN Value(x.body.json) ELSE JObj(<<>>)

(* C13: for a completed exchange the status_body of the response is the    *)
(* downstream body parsed as JSON when it is non-empty and well-formed,    *)
(* and {} for an empty, a whitespace-only or a malformed body; a response  *)
(* document is composed in every case.                                     *)
C13_StatusBodyParsedOrEmpty ==
    (Usable /\ exchange.completed) =>
        /\ Len(published) = 1
        /\ published[1].payload.form = "json"
        /\ Answer("status_body") = ExpectedBody(exchange)

C13_Witness ==
    /\ Usable /\ exchange.completed /\ exchange.readable
    /\ exchange.body = GarbageText
    /\ Answer("status_body") = JObj(<<>>)

(* C14: on a rejected consent send_delete is invoked with the patient of   *)
(* the consent of this message's content and sends no body; on an active   *)
(* consent send_mtb_file is invoked with this message's content, which is  *)
(* the body it sends.                                                      *)
C14_CallArguments ==
    (Usable /\ calls # <<>>) =>
        /\ WireStatus(msg.payload.s) = "rejected" =>
              /\ calls[1].fn = "send_delete"
              /\ calls[1].arg = Last(WirePatients(msg.payload.s)).v.s
              /\ calls[1].http.method = "DELETE"
              /\ calls[1].http.url = env.APP_REST_URI.v \o "/MTBFile/"
                                        \o Last(WirePatients(msg.payload.s)).v.s
              /\ calls[1].http.body = EmptyText
        /\ WireStatus(msg.payload.s) = "active" =>
              /\ calls[1].fn = "send_mtb_file"
              /\ calls[1].arg.form = "json"
              /\ Value(calls[1].arg.json) = Value(Last(WireContents(msg.payload.s)).v)
              /\ calls[1].http.method = "POST"
              /\ calls[1].http.url = env.APP_REST_URI.v \o "/MTBFile"
              /\ calls[1].http.body = calls[1].arg

C14_Witness ==
    /\ Usable /\ WireStatus(msg.payload.s) = "rejected"
    /\ Len(calls) = 1
    /\ calls[1].arg = "p2"
    /\ calls[1].http.url = "http://bwhc/MTBFile/p2"
    /\ pc = "publish"

(* C15: at most one response is handed to the producer per message and at  *)
(* most one downstream operation is invoked; when the publish fails this   *)
(* is logged and handling of the message is over, with the one downstream  *)
(* call made and its one response not delivered.                           *)
C15_AtMostOnePublishAttempt ==
    /\ Len(published) <= 1
    /\ Len(calls) <= 1
    /\ delivered = "failed" =>
          /\ pc = "recv"
          /\ Len(published) = 1
          /\ Len(calls) = 1
          /\ logged = <<"Response not sent">>

C15_Witness ==
    /\ delivered = "failed" /\ pc = "recv"
    /\ Len(Submits) = 1
    /\ exchange.completed /\ exchange.status = 200
    /\ Len(published) = 1

(* The text of the content as it stands in the inbound document *)
WireContentText(s) == Text("json", s.ws, Last(WireContents(s)).v)

(* C16, as claimed: the body sent by send_mtb_file is the content of the   *)
(* inbound document byte for byte.                                         *)
C16_ContentByteForByte ==
    (Usable /\ Submits # <<>>) =>
        calls[1].http.body = WireContentText(msg.payload.s)

(* C16, amended: the body sent by send_mtb_file is the content as          *)
(* serde_json decoded it (for a repeated key the last value), written      *)
(* compactly, without the whitespace of the inbound document.              *)
C16_ContentReserialized ==
    (Usable /\ Submits # <<>>) =>
        /\ calls[1].http.body.form = "json"
        /\ calls[1].http.body.ws = FALSE
        /\ Value(calls[1].http.body.json) = Value(Last(WireContents(msg.payload.s)).v)

C16_Witness ==
    /\ Usable /\ Len(Submits) = 1
    /\ msg.payload.s.ws
    /\ ~calls[1].http.body.ws
    /\ calls[1].http.body # WireContentText(msg.payload.s)

(* C17: the steps for one message are in order: a downstream operation is  *)
(* invoked only for a message that parsed with a valid consent; while the  *)
(* call is in flight nothing has been composed or published; a response    *)
(* is handed to the producer only once the one call has returned; and the  *)
(* publish has an outcome only for a response handed over.                 *)
C17_StepsInOrder ==
    /\ calls # <<>> => Usable /\ request.ok /\ can_parse(msg.payload.s)
    /\ pc = "downstream" =>
          /\ Len(calls) = 1
          /\ exchange = NoExchange /\ result.kind = "none"
          /\ published = <<>> /\ delivered = "none"
    /\ published # <<>> =>
          /\ Len(calls) = 1
          /\ result.kind # "none"
          /\ calls[1].ok => exchange # NoExchange
    /\ pc = "publish" => Len(published) = 1 /\ delivered = "pending"
    /\ delivered \in {"ok", "failed"} => published # <<>> /\ pc = "recv"

C17_Witness ==
    /\ pc = "downstream" /\ Len(Deletes) = 1
    /\ result.kind = "none" /\ published = <<>>

(* The client call returns (reqwest's timeout of 5 s at the latest) and    *)
(* producer.send returns (its queue timeout and message.timeout.ms).       *)
FairSpec ==
    /\ Spec
    /\ WF_vars(\E x \in Exchanges : DownstreamReturns(x))
    /\ WF_vars(\E ok \in BOOLEAN : PublishReturns(ok))

(* C18: handling of a received message always ends, main being back at     *)
(* consumer.recv(), given that the client call and the publish return;     *)
(* and no message makes the process panic.                                 *)
C18_HandlingTerminates ==
    /\ [](received > 0 => pc # "panicked")
    /\ [](pc \in {"downstream", "publish"} => <>(pc = "recv"))

C18_Witness ==
    /\ received = 2 /\ pc = "recv"
    /\ Usable /\ result.kind = "err" /\ delivered = "failed"

(* The response document for body s once the exchange x is known, read     *)
(* from the wire alone.                                                    *)
ExpectedAnswer(s, x) ==
    IF x.completed
    THEN Compact(JObj(<<M("request_id", JStr(WireIds(s)[1].v.s)),
                        M("status_body", ExpectedBody(x)),
                        M("status_code", JNum(x.status))>>))
    ELSE NoConnectionAnswer(WireIds(s)[1].v.s)

(* C19: what is done for a message is a function of that message (body    *)
(* and key), of what the downstream call gave for it and of the startup    *)
(* configuration, whatever was received before it: the operation chosen    *)
(* and its argument follow from the body alone, the published response     *)
(* from body, key and downstream result.  Nothing is called or published   *)
(* for a message that is not a request with a valid consent.               *)
C19_OutcomeFromMessageAlone ==
    received > 0 =>
        IF Usable /\ WellFormed(msg.payload.s)
        THEN /\ Len(calls) = 1
             /\ IF WireStatus(msg.payload.s) = "active"
                THEN /\ calls[1].fn = "send_mtb_file"
                     /\ calls[1].arg =
                            Compact(Value(Last(WireContents(msg.payload.s)).v))
                ELSE /\ calls[1].fn = "send_delete"
                     /\ calls[1].arg = Last(WirePatients(msg.payload.s)).v.s
             /\ published =
                   IF pc = "downstream" THEN <<>>
                   ELSE <<[topic |-> ResponseTopic(env), key |-> msg.key.s,
                           payload |-> ExpectedAnswer(msg.payload.s, exchange)]>>
        ELSE calls = <<>> /\ published = <<>>

C19_Witness ==
    /\ received = 2 /\ Usable /\ WellFormed(msg.payload.s)
    /\ WireIds(msg.payload.s)[1].v.s = "r1"
    /\ pc = "recv" /\ exchange.completed /\ exchange.status = 201
    /\ Len(published) = 1 /\ delivered = "ok"

(* C20: a message is received only when main is at consumer.recv() with    *)
(* the message before it finished: if that one started a downstream call,  *)
(* the call has returned and the one publish attempt of its response has   *)
(* an outcome.  So at most one call is in flight and the responses leave   *)
(* in the order of the inbound messages.                                   *)
C20_OneMessageAtATime ==
    [][received' # received =>
          /\ pc = "recv"
          /\ received' = received + 1
          /\ delivered # "pending"
          /\ calls # <<>> =>
                /\ Len(calls) = 1
                /\ result.kind # "none"
                /\ Len(published) = 1
                /\ delivered \in {"ok", "failed"}]_vars

C20_Witness ==
    /\ received = 2 /\ Usable
    /\ pc = "downstream" /\ Len(calls) = 1
    /\ published = <<>>

(* C21: a received message that has no key, or whose key or payload is     *)
(* absent or not valid UTF-8, is dropped by main's loop with an error      *)
(* line: handle_message does not run, so no downstream operation is        *)
(* invoked and no response is published, also when the payload is a        *)
(* well-formed request with a valid consent.  The loop goes on.            *)
C21_UnusableMessageDropped ==
    (received > 0 /\ (msg.key.view # "ok" \/ msg.payload.view # "ok")) =>
        /\ pc = "recv"
        /\ request = NoPayloadRequest
        /\ calls = <<>>
        /\ result = NoResult
        /\ published = <<>>
        /\ delivered = "none"
        /\ logged # <<"Unable to consume message">> =>
              logged = << IF msg.payload.view # "ok" THEN "Unable to use payload!"
                          ELSE "Unable to use key!" >>

C21_Witness ==
    /\ received > 0
    /\ msg.payload.view = "ok" /\ msg.key.view = "none"
    /\ WellFormed(msg.payload.s)
    /\ WireStatus(msg.payload.s) = "active"
    /\ pc = "recv" /\ calls = <<>> /\ published = <<>>
    /\ logged = <<"Unable to use key!">>

====
